---- MODULE Spec2Model ----
(***************************************************************************)
(* Streak statistics and the week / month / year contribution grid of the  *)
(* Progress feature (StreakStats.tsx, StreakGrid.tsx).                      *)
(*                                                                         *)
(* A JavaScript Date is modelled by the number of its local calendar day   *)
(* (days since 1970-01-01); a 'YYYY-MM-DD' string by the triple            *)
(* <<year, month, day>>, whose lexicographic order is the order of the     *)
(* zero-padded strings.                                                    *)
(***************************************************************************)
EXTENDS Integers, Sequences, FiniteSets, TLC

VARIABLES
    now,          \* the local calendar day the wall clock shows
    ticks,        \* how many midnights the clock has passed
    visits,       \* the visits prop: a list of date strings
    period,       \* the period prop of StreakGrid
    view,         \* the grid on screen: "none", "week", "month" or "year"
    cells,        \* its columns of 7 slots each (the week view has one)
    labels,       \* the month labels of the year view, one per column
    title,        \* <<month name>> or <<year>> above the grid
    reads,        \* what the clock showed at each read of one StreakGrid call
    call,         \* the last getFullWeekDays call: its days, time zone, result
    stats,        \* the cards of StreakStats
    statsShown    \* whether StreakStats has rendered for the current visits

vars == <<now, ticks, visits, period, view, cells, labels, title, reads, call,
          stats, statsShown>>

gridVars == <<view, cells, labels, title, reads>>

(***************************************************************************)
(* Bounds of the model.                                                    *)
(***************************************************************************)
FirstYear == 2000
NumYears == 28
MaxTicks == 1
MaxSkewAt == 4
MaxGridVisits == 1
MaxStatsVisits == 3

Years == FirstYear .. (FirstYear + NumYears - 1)
Periods == {"week", "month", "year"}
\* west of, at and east of Greenwich
TimeZones == {-1, 0, 1}
\* the days, relative to today, the caller may have recorded a visit on
GridVisitDays == {-1, 0, 1}
StatsVisitDays == {-3, -2, -1, 0, 1}
\* the read of the clock from which on it shows the next day (0: it does not
\* pass midnight during the call)
SkewPoints == {0} \cup 2..MaxSkewAt

\* a null entry of a week column
Null == <<>>

\* a JavaScript array: the sequence f, held as a tuple
Array(f) == f \o <<>>

(***************************************************************************)
(* The Date object of the platform.                                        *)
(***************************************************************************)
\* day number of the proleptic Gregorian date y-m-d (m in 1..12)
DaysFromCivil(y, m, d) ==
    LET yy  == IF m <= 2 THEN y - 1 ELSE y
        era == yy \div 400
        yoe == yy - era * 400
        mp  == IF m > 2 THEN m - 3 ELSE m + 9
        doy == ((153 * mp + 2) \div 5) + d - 1
        doe == yoe * 365 + (yoe \div 4) - (yoe \div 100) + doy
    IN  era * 146097 + doe - 719468

\* <<year, month, day>> of a day number
CivilFromDays(t) ==
    LET z   == t + 719468
        era == z \div 146097
        doe == z - era * 146097
        yoe == (doe - (doe \div 1460) + (doe \div 36524) - (doe \div 146096)) \div 365
        doy == doe - (365 * yoe + (yoe \div 4) - (yoe \div 100))
        mp  == (5 * doy + 2) \div 153
        d   == doy - ((153 * mp + 2) \div 5) + 1
        m   == IF mp < 10 THEN mp + 3 ELSE mp - 9
        y   == yoe + era * 400 + (IF m <= 2 THEN 1 ELSE 0)
    IN  <<y, m, d>>

\* new Date(year, monthIndex, day): monthIndex is 0-based, day and
\* monthIndex overflow into the neighbouring months and years
NewDate(year, monthIndex, day) ==
    DaysFromCivil(year + (monthIndex \div 12), (monthIndex % 12) + 1, 1) + day - 1

getFullYear(t) == CivilFromDays(t)[1]
getMonth(t) == CivilFromDays(t)[2] - 1
getDate(t) == CivilFromDays(t)[3]
\* Sunday = 0 .. Saturday = 6; 1970-01-01 was a Thursday
getDay(t) == (t + 4) % 7
\* date.setDate(n)
setDate(t, n) == NewDate(getFullYear(t), getMonth(t), n)

\* new Date('YYYY-MM-DD'): a date-only string is midnight UTC, which west of
\* Greenwich (tz < 0) is still the evening of the previous local day
DateFromString(s, tz) ==
    NewDate(s[1], s[2] - 1, s[3]) - (IF tz < 0 THEN 1 ELSE 0)

\* 'a' > 'b' on two date strings
StrGT(a, b) ==
    \/ a[1] > b[1]
    \/ a[1] = b[1] /\ a[2] > b[2]
    \/ a[1] = b[1] /\ a[2] = b[2] /\ a[3] > b[3]

(***************************************************************************)
(* lib/streakCalculations                                                  *)
(***************************************************************************)
\* the local date of a Date as 'YYYY-MM-DD'
formatDate(t) == CivilFromDays(t)

\* Monday = 0 .. Sunday = 6
getDayOfWeek(dateStr) ==
    LET day == getDay(NewDate(dateStr[1], dateStr[2] - 1, dateStr[3]))
    IN  IF day = 0 THEN 6 ELSE day - 1

FULL_MONTH_NAMES ==
    <<"January", "February", "March", "April", "May", "June", "July",
      "August", "September", "October", "November", "December">>

\* the month name of a 'YYYY-MM' key
getMonthName(monthKey) == FULL_MONTH_NAMES[monthKey[2]]

hasVisit(vs, dateStr) == \E i \in 1..Len(vs) : vs[i] = dateStr

\* the Date of a date string, read as a local calendar day
DateOf(dateStr) == NewDate(dateStr[1], dateStr[2] - 1, dateStr[3])

\* the days of the period that contains today: the Monday-to-Sunday week, the
\* calendar month, or the calendar year
getDaysInPeriod(p, today) ==
    LET year == getFullYear(today)
        month == getMonth(today)
        day == getDay(today)
        monday == today - (IF day = 0 THEN 6 ELSE day - 1)
        first == CASE p = "week" -> monday
                   [] p = "month" -> NewDate(year, month, 1)
                   [] p = "year" -> NewDate(year, 0, 1)
        last == CASE p = "week" -> monday + 6
                  [] p = "month" -> NewDate(year, month + 1, 0)
                  [] p = "year" -> NewDate(year, 11, 31)
    IN  Array([i \in 1..(last - first + 1) |-> formatDate(first + (i - 1))])

\* the number of distinct dates
calculateTotalVisits(vs) == Cardinality({vs[i] : i \in 1..Len(vs)})

\* walk back from day while the day is visited, counting
RECURSIVE WalkBack(_, _, _)
WalkBack(vs, day, count) ==
    IF hasVisit(vs, formatDate(day))
    THEN WalkBack(vs, day - 1, count + 1)
    ELSE count

\* from today, or from yesterday when today has no visit yet
calculateCurrentStreak(vs, today) ==
    WalkBack(vs, IF hasVisit(vs, formatDate(today)) THEN today ELSE today - 1, 0)

\* the distinct dates in ascending order of their strings
RECURSIVE SortDates(_)
SortDates(S) ==
    IF S = {} THEN <<>>
    ELSE LET least == CHOOSE d \in S : \A e \in S : ~StrGT(d, e)
         IN  <<least>> \o SortDates(S \ {least})

\* scan the sorted dates: the run grows when the next date is exactly one
\* calendar day after the previous one and restarts at 1 on a gap
RECURSIVE ScanRuns(_, _, _, _)
ScanRuns(sorted, i, run, best) ==
    IF i > Len(sorted) THEN best
    ELSE LET r == IF DateOf(sorted[i]) = DateOf(sorted[i - 1]) + 1
                  THEN run + 1 ELSE 1
         IN  ScanRuns(sorted, i + 1, r, IF r > best THEN r ELSE best)

calculateLongestStreak(vs) ==
    LET sorted == SortDates({vs[i] : i \in 1..Len(vs)})
    IN  IF Len(sorted) = 0 THEN 0 ELSE ScanRuns(sorted, 2, 1, 1)

(***************************************************************************)
(* StreakGrid.tsx                                                          *)
(***************************************************************************)
isFutureDate(dateStr, today) == StrGT(dateStr, formatDate(today))

\* getFullWeekDays with the week begun on the Sunday
getFullWeekDaysFromSunday(days, tz) ==
    IF Len(days) = 0 THEN Array([i \in 1..7 |-> Null])
    ELSE LET firstDay == DateFromString(days[1], tz)
             dayOfWeek == getDay(firstDay)
             sunday == setDate(firstDay, getDate(firstDay) - dayOfWeek)
         IN  Array([i \in 1..7 |->
                      formatDate(setDate(sunday, getDate(sunday) + (i - 1)))])

getFullWeekDays(days, tz) ==
    IF Len(days) = 0 THEN Array([i \in 1..7 |-> Null])
    ELSE LET firstDay == DateFromString(days[1], tz)
             dayOfWeek == getDay(firstDay)
             mondayOffset == IF dayOfWeek = 0 THEN -6 ELSE 1 - dayOfWeek
             monday == setDate(firstDay, getDate(firstDay) + mondayOffset)
         IN  Array([i \in 1..7 |->
                      formatDate(setDate(monday, getDate(monday) + (i - 1)))])

\* getFullMonthDays with the last day taken from the month before
getFullMonthDaysOffByOne(today) ==
    LET year == getFullYear(today)
        month == getMonth(today)
        lastDay == getDate(NewDate(year, month, 0))
    IN  Array([day \in 1..lastDay |-> formatDate(NewDate(year, month, day))])

getFullMonthDays(today) ==
    LET year == getFullYear(today)
        month == getMonth(today)
        lastDay == getDate(NewDate(year, month + 1, 0))
    IN  Array([day \in 1..lastDay |-> formatDate(NewDate(year, month, day))])

\* the while loop pushes formatDate(currentDate) and moves currentDate one
\* day on, setDate(getDate() + 1), as long as currentDate <= endDate
getFullYearDays(today) ==
    LET year == getFullYear(today)
        startDate == NewDate(year, 0, 1)
        endDate == NewDate(year, 11, 31)
    IN  Array([i \in 1..(endDate - startDate + 1) |->
                 formatDate(startDate + (i - 1))])

EmptyWeek == Array([r \in 1..7 |-> Null])

\* currentWeek.some(d => d !== null)
SomeDay(week) == \E r \in 1..7 : week[r] # Null

\* The grouping loop of MonthGrid and YearGrid, column by column. The loop
\* writes each day into slot getDayOfWeek(day) of currentWeek and, at a day
\* whose getDayOfWeek is closeAt, pushes currentWeek and starts an empty one;
\* so the c-th week pushed holds the days after the (c - 1)-th such day up
\* to the c-th, a later day of a weekday overwriting an earlier one. After
\* the loop the week left over is pushed when it has a day (or pushEmpty).
GroupDays(allDays, closeAt, pushEmpty) ==
    LET n == Len(allDays)
        dows == Array([j \in 1..n |-> getDayOfWeek(allDays[j])])
        closing == SelectSeq([j \in 1..n |-> j], LAMBDA j : dows[j] = closeAt)
        m == Len(closing)
        week(lo, hi) ==
            Array([r \in 1..7 |->
                LET put == {j \in lo..hi : dows[j] = r - 1}
                IN  IF put = {} THEN Null
                    ELSE allDays[CHOOSE j \in put : \A k \in put : k <= j]])
        pushed == Array([c \in 1..m |->
                      week(IF c = 1 THEN 1 ELSE closing[c - 1] + 1, closing[c])])
        currentWeek == week((IF m = 0 THEN 0 ELSE closing[m]) + 1, n)
    IN  IF pushEmpty \/ SomeDay(currentWeek) THEN Append(pushed, currentWeek) ELSE pushed

\* GroupWeeks with the week left over pushed even when it is empty
GroupWeeksPushAlways(allDays) == GroupDays(allDays, 6, TRUE)

GroupWeeks(allDays) == GroupDays(allDays, 6, FALSE)

\* week.find(d => d !== null)
FirstDayInWeek(week) ==
    IF SomeDay(week)
    THEN week[CHOOSE r \in 1..7 :
                 week[r] # Null /\ \A q \in 1..(r - 1) : week[q] = Null]
    ELSE Null

\* LastMonth with lastMonth never assigned
LastMonthUnset(firstDays, c) == <<>>

\* lastMonth when the label loop of YearGrid reaches column c: '' until a
\* week with a day has been seen, from then on the month key of the last
\* such week
LastMonth(firstDays, c) ==
    LET seen == {b \in 1..(c - 1) : firstDays[b] # Null}
    IN  IF seen = {} THEN <<>>
        ELSE SubSeq(firstDays[CHOOSE b \in seen : \A a \in seen : a <= b], 1, 2)

\* MonthLabels with the name put on the week that holds the month's day 1
MonthLabelsAtDayOne(allWeeks) ==
    Array([c \in 1..Len(allWeeks) |->
        LET ones == {r \in 1..7 : allWeeks[c][r] # Null /\ allWeeks[c][r][3] = 1}
        IN  IF ones = {} THEN ""
            ELSE getMonthName(SubSeq(allWeeks[c][CHOOSE r \in ones : TRUE], 1, 2))])

\* The label loop of YearGrid, column by column: a week gets its month's
\* name when the month key of its first day differs from lastMonth.
MonthLabels(allWeeks) ==
    LET firstDays == Array([c \in 1..Len(allWeeks) |->
                              FirstDayInWeek(allWeeks[c])])
    IN  Array([c \in 1..Len(allWeeks) |->
            IF /\ firstDays[c] # Null
               /\ SubSeq(firstDays[c], 1, 2) # LastMonth(firstDays, c)
            THEN getMonthName(SubSeq(firstDays[c], 1, 2))
            ELSE ""])

\* the i-th read of the clock in a call that starts on day t, when the clock
\* passes midnight just before read k
ReadClock(t, k, i) == IF k # 0 /\ i >= k THEN t + 1 ELSE t

\* CellStyle with the visited class tried before the future one
CellStyleVisitedFirst(isVisited, isFuture) ==
    IF isVisited THEN "visited"
    ELSE IF isFuture THEN "future" ELSE "empty"

\* the class and title DayCell and WeekGrid choose
CellStyle(isVisited, isFuture) ==
    IF isFuture THEN "future"
    ELSE IF isVisited THEN "visited" ELSE "empty"

\* the placeholder rendered for a null slot
BlankCell ==
    [date |-> Null, isVisited |-> FALSE, isFuture |-> FALSE, style |-> "blank",
     today |-> 0]

\* a day's cell; today is what the clock showed to its isFutureDate call
Cell(vs, day, today) ==
    LET isVisited == hasVisit(vs, day)
        isFuture == isFutureDate(day, today)
    IN  [date |-> day, isVisited |-> isVisited, isFuture |-> isFuture,
         style |-> CellStyle(isVisited, isFuture), today |-> today]

\* WeekGrid: read 1 is getDaysInPeriod, reads 2..8 the seven cells
WeekCells(vs, fullWeekDays, t, k) ==
    << Array([idx \in 1..7 |->
          IF fullWeekDays[idx] = Null THEN BlankCell
          ELSE Cell(vs, fullWeekDays[idx], ReadClock(t, k, 1 + idx))]) >>

\* the slot rendered o-th: MonthGrid maps the weeks and each week's days,
\* YearGrid maps the seven rows and each row's weeks
SlotAt(nCols, rowMajor, o) ==
    IF rowMajor
    THEN <<((o - 1) % nCols) + 1, ((o - 1) \div nCols) + 1>>
    ELSE <<((o - 1) \div 7) + 1, ((o - 1) % 7) + 1>>

DayAtSlot(ws, rowMajor, o) ==
    LET slot == SlotAt(Len(ws), rowMajor, o) IN ws[slot[1]][slot[2]]

\* the slots of the first q days rendered, from slot o on
RECURSIVE FirstCells(_, _, _, _)
FirstCells(ws, rowMajor, o, q) ==
    LET total == 7 * Len(ws)
    IN  IF q <= 0 \/ ~(\E j \in o..total : DayAtSlot(ws, rowMajor, j) # Null)
        THEN {}
        ELSE LET first == CHOOSE j \in o..total :
                             /\ DayAtSlot(ws, rowMajor, j) # Null
                             /\ \A i \in o..(j - 1) : DayAtSlot(ws, rowMajor, i) = Null
             IN  {SlotAt(Len(ws), rowMajor, first)}
                   \cup FirstCells(ws, rowMajor, first + 1, q - 1)

\* MonthGrid and YearGrid: reads 1..3 are getDaysInPeriod, the title and the
\* day list, read 3 + j is the j-th day cell rendered
GridCells(vs, ws, rowMajor, t, k) ==
    LET early == IF k > 4 THEN FirstCells(ws, rowMajor, 1, k - 4) ELSE {}
    IN  Array([c \in 1..Len(ws) |->
          Array([r \in 1..7 |->
             IF ws[c][r] = Null THEN BlankCell
             ELSE Cell(vs, ws[c][r],
                       IF k = 0 \/ <<c, r>> \in early THEN t ELSE t + 1)])])

NoCall == [called |-> FALSE, days |-> <<>>, tz |-> 0, result |-> EmptyWeek]
NoStats == [currentStreak |-> 0, longestStreak |-> 0, totalVisits |-> 0,
            currentDescription |-> "", longestDescription |-> "", today |-> 0]

Blank ==
    /\ ticks = 0
    /\ view = "none"
    /\ cells = <<>>
    /\ labels = <<>>
    /\ title = <<>>
    /\ reads = <<>>
    /\ call = NoCall
    /\ stats = NoStats
    /\ statsShown = FALSE

\* the clock after a call in which it passed midnight before read k
ClockAfter(k) ==
    /\ k # 0 => ticks < MaxTicks
    /\ now' = IF k # 0 THEN now + 1 ELSE now
    /\ ticks' = IF k # 0 THEN ticks + 1 ELSE ticks

\* WeekGrid on the days getDaysInPeriod gave StreakGrid
WeekGrid(vs, t, k, tz) ==
    LET days == getDaysInPeriod("week", ReadClock(t, k, 1))
        fullWeekDays == getFullWeekDays(days, tz)
    IN  [cells |-> WeekCells(vs, fullWeekDays, t, k),
         labels |-> <<>>,
         title |-> <<>>,
         reads |-> <<ReadClock(t, k, 1)>>,
         call |-> [called |-> TRUE, days |-> days, tz |-> tz,
                   result |-> fullWeekDays]]

MonthGrid(vs, t, k) ==
    LET currentDate == ReadClock(t, k, 2)
        monthName == FULL_MONTH_NAMES[getMonth(currentDate) + 1]
        allMonthDays == getFullMonthDays(ReadClock(t, k, 3))
        weeks == GroupWeeks(allMonthDays)
    IN  [cells |-> GridCells(vs, weeks, FALSE, t, k),
         labels |-> <<>>,
         title |-> <<monthName>>,
         reads |-> <<ReadClock(t, k, 1), currentDate, ReadClock(t, k, 3)>>]

YearGrid(vs, t, k) ==
    LET currentYear == getFullYear(ReadClock(t, k, 2))
        allYearDays == getFullYearDays(ReadClock(t, k, 3))
        allWeeks == GroupWeeks(allYearDays)
    IN  [cells |-> GridCells(vs, allWeeks, TRUE, t, k),
         labels |-> MonthLabels(allWeeks),
         title |-> <<currentYear>>,
         reads |-> <<ReadClock(t, k, 1), ReadClock(t, k, 2), ReadClock(t, k, 3)>>]

\* the grid is on screen
Show(p, grid) ==
    /\ view' = p
    /\ cells' = grid.cells
    /\ labels' = grid.labels
    /\ title' = grid.title
    /\ reads' = grid.reads

\* StreakGrid with period = 'week', in a time zone tz
StreakGridWeek ==
    /\ period = "week"
    /\ \E k \in SkewPoints, tz \in TimeZones :
         LET grid == WeekGrid(visits, now, k, tz)
         IN  /\ ClockAfter(k)
             /\ Show("week", grid)
             /\ call' = grid.call
    /\ UNCHANGED <<visits, period, stats, statsShown>>

\* StreakGrid with period = 'month'
StreakGridMonth ==
    /\ period = "month"
    /\ \E k \in SkewPoints :
         /\ ClockAfter(k)
         /\ Show("month", MonthGrid(visits, now, k))
    /\ UNCHANGED <<visits, period, call, stats, statsShown>>

\* StreakGrid with period = 'year'
StreakGridYear ==
    /\ period = "year"
    /\ \E k \in SkewPoints :
         /\ ClockAfter(k)
         /\ Show("year", YearGrid(visits, now, k))
    /\ UNCHANGED <<visits, period, call, stats, statsShown>>

\* getFullWeekDays on its own, before any grid is rendered: on no day, on
\* today, or on today and tomorrow
CallGetFullWeekDays ==
    /\ period = "week"
    /\ view = "none"
    /\ ~call.called
    /\ \E n \in 0..2, tz \in TimeZones :
         LET days == Array([i \in 1..n |-> formatDate(now + (i - 1))])
         IN  call' = [called |-> TRUE, days |-> days, tz |-> tz,
                      result |-> getFullWeekDays(days, tz)]
    /\ UNCHANGED <<now, ticks, visits, period, gridVars, stats, statsShown>>

\* LongestDescription without the test that a streak is running
LongestDescriptionAnyStreak(currentStreak, longestStreak) ==
    IF currentStreak >= longestStreak
    THEN "You're at your best!"
    ELSE "Your personal record"

\* the cards of StreakStats
LongestDescription(currentStreak, longestStreak) ==
    IF currentStreak >= longestStreak /\ currentStreak > 0
    THEN "You're at your best!"
    ELSE "Your personal record"

\* StatCards with the current streak card showing the longest streak
StatCardsLongestAsCurrent(vs, today) ==
    LET currentStreak == calculateLongestStreak(vs)
        longestStreak == calculateLongestStreak(vs)
        totalVisits == calculateTotalVisits(vs)
    IN  [currentStreak |-> currentStreak,
         longestStreak |-> longestStreak,
         totalVisits |-> totalVisits,
         currentDescription |->
             IF currentStreak > 0 THEN "Keep it going!"
             ELSE "Start your streak today!",
         longestDescription |-> LongestDescription(currentStreak, longestStreak),
         today |-> today]

StatCards(vs, today) ==
    LET currentStreak == calculateCurrentStreak(vs, today)
        longestStreak == calculateLongestStreak(vs)
        totalVisits == calculateTotalVisits(vs)
    IN  [currentStreak |-> currentStreak,
         longestStreak |-> longestStreak,
         totalVisits |-> totalVisits,
         currentDescription |->
             IF currentStreak > 0 THEN "Keep it going!"
             ELSE "Start your streak today!",
         longestDescription |-> LongestDescription(currentStreak, longestStreak),
         today |-> today]

StreakStats ==
    /\ stats' = StatCards(visits, now)
    /\ statsShown' = TRUE
    /\ UNCHANGED <<now, ticks, visits, period, gridVars, call>>

\* the caller records a visit; what was rendered for the old list is dropped
AddVisit(offsets, max) ==
    /\ Len(visits) < max
    /\ \E o \in offsets : visits' = Append(visits, formatDate(now + o))
    /\ view' = "none"
    /\ cells' = <<>>
    /\ labels' = <<>>
    /\ title' = <<>>
    /\ reads' = <<>>
    /\ call' = NoCall
    /\ stats' = NoStats
    /\ statsShown' = FALSE
    /\ UNCHANGED <<now, ticks, period>>

GridAddVisit == AddVisit(GridVisitDays, MaxGridVisits)
StatsAddVisit == AddVisit(StatsVisitDays, MaxStatsVisits)

\* midnight passes
Tick ==
    /\ ticks < MaxTicks
    /\ now' = now + 1
    /\ ticks' = ticks + 1
    /\ UNCHANGED <<visits, period, gridVars, call, stats, statsShown>>

(***************************************************************************)
(* The grid with a visit list: a day in mid-February and New Year's Eve.   *)
(***************************************************************************)
Init ==
    /\ now \in {NewDate(FirstYear, 1, 15), NewDate(FirstYear, 11, 31)}
    /\ period \in Periods
    /\ visits = <<>>
    /\ Blank

Next ==
    \/ GridAddVisit
    \/ Tick
    \/ StreakGridWeek
    \/ StreakGridMonth
    \/ StreakGridYear

Spec == Init /\ [][Next]_vars

(***************************************************************************)
(* The grid over the calendar: the year view on the last day of every      *)
(* year, the month view on the last day of every month of the years, the   *)
(* week view on the last day of every month of the first four years.       *)
(***************************************************************************)
InitCal ==
    /\ \E y \in Years :
         \/ /\ period = "year"
            /\ now = NewDate(y, 11, 31)
         \/ /\ period = "month"
            /\ \E m \in 0..11 : now = NewDate(y, m + 1, 0)
         \/ /\ period = "week"
            /\ y < FirstYear + 4
            /\ \E m \in 0..11 : now = NewDate(y, m + 1, 0)
    /\ visits = <<>>
    /\ Blank

NextCal ==
    \/ StreakGridWeek
    \/ StreakGridMonth
    \/ StreakGridYear
    \/ CallGetFullWeekDays

SpecCal == InitCal /\ [][NextCal]_vars

(***************************************************************************)
(* The statistics: the first of March and New Year's Day.                  *)
(***************************************************************************)
InitStats ==
    /\ now \in {NewDate(FirstYear, 2, 1), NewDate(FirstYear + 1, 0, 1)}
    /\ period = "week"
    /\ visits = <<>>
    /\ Blank

NextStats ==
    \/ StatsAddVisit
    \/ Tick
    \/ StreakStats

SpecStats == InitStats /\ [][NextStats]_vars

(***************************************************************************)
(* The calendar, stated independently of the Date arithmetic above.        *)
(***************************************************************************)
IsLeapYear(y) == (y % 4 = 0 /\ y % 100 # 0) \/ y % 400 = 0

DaysInMonth(y, m) ==
    CASE m \in {1, 3, 5, 7, 8, 10, 12} -> 31
      [] m \in {4, 6, 9, 11} -> 30
      [] m = 2 -> IF IsLeapYear(y) THEN 29 ELSE 28

\* the weekday of a date string, Monday = 0 .. Sunday = 6 (Sakamoto's rule)
Weekday(s) ==
    LET shift == <<0, 3, 2, 5, 0, 3, 5, 1, 4, 6, 2, 4>>
        y == IF s[2] < 3 THEN s[1] - 1 ELSE s[1]
        sunday0 == (y + (y \div 4) - (y \div 100) + (y \div 400)
                      + shift[s[2]] + s[3]) % 7
    IN  (sunday0 + 6) % 7

\* the date string of the next calendar day
Tomorrow(s) ==
    IF s[3] < DaysInMonth(s[1], s[2]) THEN <<s[1], s[2], s[3] + 1>>
    ELSE IF s[2] < 12 THEN <<s[1], s[2] + 1, 1>>
    ELSE <<s[1] + 1, 1, 1>>

\* the slots of the grid on screen that hold a day
DaySlots ==
    {sl \in (1..Len(cells)) \X (1..7) : cells[sl[1]][sl[2]].date # Null}

DateAt(sl) == cells[sl[1]][sl[2]].date

\* the days of the grid on screen, read column by column and top to bottom,
\* skipping nulls
ShownDays ==
    SelectSeq(Array([o \in 1..(7 * Len(cells)) |->
                        cells[((o - 1) \div 7) + 1][((o - 1) % 7) + 1].date]),
              LAMBDA d : d # Null)

\* the year and the month the day list of the grid on screen was built for
ShownYear == CivilFromDays(reads[3])[1]
ShownMonth == CivilFromDays(reads[3])[2]

\* days are the calendar days from first to last, once each and in order
RunsFromTo(days, first, last) ==
    /\ Len(days) > 0
    /\ days[1] = first
    /\ days[Len(days)] = last
    /\ \A i \in 1..(Len(days) - 1) : days[i + 1] = Tomorrow(days[i])

\* the column of the grid on screen that holds a date
ColumnOf(date) ==
    CHOOSE c \in 1..Len(cells) : \E r \in 1..7 : cells[c][r].date = date

(***************************************************************************)
(* C4: for a non-empty day list whose first element is the local date d,   *)
(* getFullWeekDays returns 7 consecutive calendar days, from the Monday to *)
(* the Sunday of the week that contains d, so d is one of them.            *)
(***************************************************************************)
C4_WeekContainsFirstDay ==
    (call.called /\ Len(call.days) > 0) =>
        /\ Len(call.result) = 7
        /\ \A i \in 1..7 : call.result[i] # Null
        /\ \A i \in 1..6 : call.result[i + 1] = Tomorrow(call.result[i])
        /\ Weekday(call.result[1]) = 0
        /\ Weekday(call.result[7]) = 6
        /\ \E i \in 1..7 : call.result[i] = call.days[1]

(***************************************************************************)
(* C5: the month grid's columns, read column by column and top to bottom   *)
(* skipping nulls, list the days 1..last of the month once each and in     *)
(* order; a column is closed exactly after each Sunday; the first column   *)
(* has nulls in precisely the rows before day 1's weekday; no column is    *)
(* all null.                                                               *)
(***************************************************************************)
MonthColumnsOf(y, m, columnOf) ==
    /\ RunsFromTo(ShownDays, <<y, m, 1>>, <<y, m, DaysInMonth(y, m)>>)
    /\ \A d \in 1..(DaysInMonth(y, m) - 1) :
          columnOf[d + 1] =
             columnOf[d] + (IF Weekday(<<y, m, d>>) = 6 THEN 1 ELSE 0)
    /\ columnOf[1] = 1
    /\ \A r \in 1..7 : cells[1][r].date = Null <=> r - 1 < Weekday(<<y, m, 1>>)
    /\ \A c \in 1..Len(cells) : \E r \in 1..7 : cells[c][r].date # Null

C5_MonthColumns ==
    view = "month" =>
        /\ \A d \in 1..DaysInMonth(ShownYear, ShownMonth) :
              \E sl \in DaySlots : DateAt(sl) = <<ShownYear, ShownMonth, d>>
        /\ MonthColumnsOf(ShownYear, ShownMonth,
                          Array([d \in 1..DaysInMonth(ShownYear, ShownMonth) |->
                                    ColumnOf(<<ShownYear, ShownMonth, d>>)]))

\* a month grid whose month begins in mid-week and ends on a Sunday
C5_Witness ==
    /\ view = "month"
    /\ cells[1][1].date = Null
    /\ cells[Len(cells)][7].date # Null
    /\ Len(cells) = 5

(***************************************************************************)
(* C7: the days of the month grid are exactly the calendar days of the     *)
(* current month, those of the year grid exactly January 1 to December 31  *)
(* of the current year, each once, and none lies outside the period.       *)
(***************************************************************************)
C7_GridIsThePeriod ==
    /\ view = "month" =>
          /\ RunsFromTo(ShownDays, <<ShownYear, ShownMonth, 1>>,
                        <<ShownYear, ShownMonth, DaysInMonth(ShownYear, ShownMonth)>>)
          /\ Cardinality(DaySlots) = DaysInMonth(ShownYear, ShownMonth)
          /\ Cardinality(DaySlots) \in
                (IF ShownMonth = 2
                 THEN (IF IsLeapYear(ShownYear) THEN {29} ELSE {28})
                 ELSE {30, 31})
    /\ view = "year" =>
          /\ RunsFromTo(ShownDays, <<ShownYear, 1, 1>>, <<ShownYear, 12, 31>>)
          /\ Cardinality(DaySlots) = IF IsLeapYear(ShownYear) THEN 366 ELSE 365

\* the grid of a February of 29 days
C7_Witness ==
    /\ view = "month"
    /\ ShownMonth = 2
    /\ Cardinality(DaySlots) = 29

(***************************************************************************)
(* C9: every date placed in a grid sits in the row of its day of the week, *)
(* Monday = 0 .. Sunday = 6, and the date at index i of getFullWeekDays'   *)
(* result has day of the week i.                                           *)
(***************************************************************************)
C9_RowIsDayOfWeek ==
    /\ (call.called /\ Len(call.days) > 0) =>
          \A i \in 1..7 :
             /\ getDayOfWeek(call.result[i]) = i - 1
             /\ Weekday(call.result[i]) = i - 1
    /\ view # "none" =>
          \A sl \in DaySlots :
             /\ getDayOfWeek(DateAt(sl)) = sl[2] - 1
             /\ Weekday(DateAt(sl)) = sl[2] - 1

\* getFullWeekDays was given a Sunday, west of Greenwich
C9_Witness ==
    /\ call.called
    /\ Len(call.days) > 0
    /\ call.tz = -1
    /\ Weekday(call.days[1]) = 6

(***************************************************************************)
(* C6, as claimed: in the year grid a column's label is its month's name   *)
(* exactly when the column is the first in which a day of that month       *)
(* appears, so the label sits above the column that holds the month's      *)
(* day 1.                                                                  *)
(***************************************************************************)

\* the labels are the month names above the columns given, '' elsewhere
LabelsAbove(columns) ==
    /\ Len(labels) = Len(cells)
    /\ \A c \in 1..Len(cells) :
          labels[c] =
             IF \E m \in 1..12 : columns[m] = c
             THEN FULL_MONTH_NAMES[CHOOSE m \in 1..12 : columns[m] = c]
             ELSE ""

C6_LabelAboveDayOne ==
    view = "year" =>
        LabelsAbove(Array([m \in 1..12 |-> ColumnOf(<<ShownYear, m, 1>>)]))

(***************************************************************************)
(* C6, amended: a column's label is its month's name exactly when the      *)
(* column's first day is of another month than the first day of the column *)
(* before it; so January is labelled above the first column and any other  *)
(* month above the column of its first Monday, which is the column of its  *)
(* day 1 only when the month begins on a Monday.                           *)
(***************************************************************************)
LabelColumn(m) ==
    IF m = 1 \/ Weekday(<<ShownYear, m, 1>>) = 0
    THEN ColumnOf(<<ShownYear, m, 1>>)
    ELSE ColumnOf(<<ShownYear, m, 1>>) + 1

C6_LabelAboveFirstMonday ==
    view = "year" => LabelsAbove(Array([m \in 1..12 |-> LabelColumn(m)]))

\* a year grid with a month that begins in mid-week, labelled one column on
C6_Witness ==
    /\ view = "year"
    /\ \E m \in 2..12 :
          /\ LabelColumn(m) = ColumnOf(<<ShownYear, m, 1>>) + 1
          /\ labels[LabelColumn(m)] = FULL_MONTH_NAMES[m]
          /\ labels[ColumnOf(<<ShownYear, m, 1>>)] = ""

(***************************************************************************)
(* C10: the year grid has one label per column, and its non-empty labels   *)
(* are the 12 month names, once each, January to December.                 *)
(***************************************************************************)
C10_TwelveLabels ==
    view = "year" =>
        /\ Len(labels) = Len(cells)
        /\ SelectSeq(labels, LAMBDA l : l # "") = FULL_MONTH_NAMES

\* a leap year that begins on a Sunday: 54 columns
C10_Witness ==
    /\ view = "year"
    /\ Len(labels) = 54

(***************************************************************************)
(* C1, as stated: in the week, month and year grid every non-null cell     *)
(* whose date is after today is flagged isFuture = true and is never       *)
(* flagged isVisited = true, whatever the visit list holds.                *)
(***************************************************************************)
C1_FutureNeverVisited ==
    view # "none" =>
        \A sl \in DaySlots :
            LET cell == cells[sl[1]][sl[2]]
            IN  DateOf(cell.date) > cell.today =>
                    cell.isFuture /\ ~cell.isVisited

(***************************************************************************)
(* C1, amended: every non-null cell whose date is after today is flagged   *)
(* isFuture = true and is drawn in the future style, never the visited     *)
(* one; a cell's isVisited flag is true exactly when its date is in the    *)
(* visit list, so it is true for a future date the list holds.             *)
(***************************************************************************)
C1_FutureShownAsFuture ==
    view # "none" =>
        \A sl \in DaySlots :
            LET cell == cells[sl[1]][sl[2]]
            IN  /\ cell.isVisited <=> (\E i \in 1..Len(visits) : visits[i] = cell.date)
                /\ cell.isFuture <=> DateOf(cell.date) > cell.today
                /\ DateOf(cell.date) > cell.today => cell.style = "future"
                /\ cell.style = "visited" =>
                      cell.isVisited /\ DateOf(cell.date) <= cell.today

\* a grid with a cell for a visited day after today
C1_Witness ==
    /\ view # "none"
    /\ \E sl \in DaySlots :
          LET cell == cells[sl[1]][sl[2]]
          IN  /\ DateOf(cell.date) > cell.today
              /\ cell.isVisited
              /\ cell.style = "future"

\* what a grid shows: the cells without the clock reading kept with them
Shown(cs) ==
    Array([c \in 1..Len(cs) |->
        Array([r \in 1..7 |->
            [date |-> cs[c][r].date, isVisited |-> cs[c][r].isVisited,
             isFuture |-> cs[c][r].isFuture, style |-> cs[c][r].style]])])

\* the grid of the view on screen built with every clock read giving day T
GridAt(T) ==
    CASE view = "week" -> WeekGrid(visits, T, 0, call.tz)
      [] view = "month" -> MonthGrid(visits, T, 0)
      [] view = "year" -> YearGrid(visits, T, 0)

(***************************************************************************)
(* C8: the grid on screen is built from one 'today': its day range, its    *)
(* title, its labels and every cell's isFuture flag are those of a grid    *)
(* for which every read of the clock gave the same day, also when midnight *)
(* passed while it was built.                                              *)
(***************************************************************************)
C8_OneToday ==
    view # "none" =>
        \E T \in {reads[1], reads[1] + 1} :
            LET grid == GridAt(T)
            IN  /\ Shown(grid.cells) = Shown(cells)
                /\ grid.labels = labels
                /\ grid.title = title

\* the visited days as day numbers
VisitedDays == {DateOf(visits[i]) : i \in 1..Len(visits)}

\* the length of the maximal run of consecutive visited days ending at day e
RunEndingAt(e) ==
    CHOOSE n \in 0..Len(visits) :
        /\ \A j \in 0..(n - 1) : (e - j) \in VisitedDays
        /\ (e - n) \notin VisitedDays

(***************************************************************************)
(* C2: the current streak on the card is the length of the maximal run of  *)
(* consecutive visited days ending today when today is visited, otherwise  *)
(* of the run ending yesterday, for a visit list in any order and with     *)
(* duplicates; it is 0 exactly when neither today nor yesterday is visited.*)
(***************************************************************************)
C2_CurrentStreak ==
    statsShown =>
        LET t == stats.today
        IN  /\ stats.currentStreak =
                 IF t \in VisitedDays THEN RunEndingAt(t) ELSE RunEndingAt(t - 1)
            /\ stats.currentStreak = 0 <=>
                 (t \notin VisitedDays /\ (t - 1) \notin VisitedDays)

\* a streak of two that ends yesterday, from a list out of order with a
\* duplicate
C2_Witness ==
    /\ statsShown
    /\ stats.today \notin VisitedDays
    /\ stats.currentStreak = 2
    /\ Len(visits) = 3
    /\ DateOf(visits[1]) > DateOf(visits[2])

(***************************************************************************)
(* C3: the longest streak on the card is at least the current streak, and  *)
(* the card reads "You're at your best!" exactly when the current streak   *)
(* equals the longest streak and is positive.                              *)
(***************************************************************************)
C3_LongestAtLeastCurrent ==
    statsShown =>
        /\ stats.longestStreak >= stats.currentStreak
        /\ stats.longestDescription = "You're at your best!" <=>
              (stats.currentStreak = stats.longestStreak /\ stats.currentStreak > 0)

\* a running streak shorter than the record
C3_Witness ==
    /\ statsShown
    /\ stats.currentStreak > 0
    /\ stats.currentStreak < stats.longestStreak
    /\ stats.longestDescription = "Your personal record"
====
